---- MODULE Spec2Model ----
\* A model of the memoizing layer of the yaml package: the LRU store and its
\* instrumented subclass (cache/lru-cache.ts) and the public entry points
\* parse, parseDocument, parseAllDocuments, stringify, getCacheStats and
\* clearCaches (public-api.ts).
EXTENDS Integers, Sequences, FiniteSets, TLC

VARIABLES
    store,          \* one TrackedLRUCache instance driven directly (SpecStore)
    storeOp,        \* the last operation on `store` and what it returned
    recency,        \* ghost: keys of `store`, least recently accessed first
    gets,           \* ghost: get calls on `store` since creation / resetStats
    nOps,           \* operations performed on `store`
    parseCache,     \* the module-level parse cache
    stringifyCache, \* the module-level stringify cache
    last,           \* the last call of an entry point: arguments, outcome,
                    \* what it observed, and both caches as they were before
    nCalls          \* calls of entry points so far

storeVars == <<store, storeOp, recency, gets, nOps>>
apiVars == <<parseCache, stringifyCache, last, nCalls>>
vars == <<store, storeOp, recency, gets, nOps, parseCache, stringifyCache, last, nCalls>>

-----------------------------------------------------------------------------
\* Bounds of the model.

MaxCapacity == 2        \* capacities 0..MaxCapacity are tried for `store`
MaxStoreOps == 5        \* operations on `store` per behaviour
MaxCalls == 3           \* calls of entry points per behaviour
CacheCapacity == 1      \* capacity of the two module-level caches in the model
                        \* (2000 in the program)
MaxClearSteps == 3      \* store operations and calls together under SpecClear
MaxStringifyCalls == 2  \* stringify calls per behaviour under SpecStringify

-----------------------------------------------------------------------------
\* JavaScript values. Every value is a record with a type tag `t`.

Undefined == [t |-> "undefined", v |-> <<>>]
Null == [t |-> "null", v |-> <<>>]
Num(n) == [t |-> "number", v |-> <<n>>]
True == [t |-> "boolean", v |-> <<1>>]
False == [t |-> "boolean", v |-> <<0>>]

IsUndefined(x) == x.t = "undefined"

-----------------------------------------------------------------------------
\* Strings are sequences of UTF-16 code units.

Str(x) == [t |-> "string", v |-> x]
Fn(id) == [t |-> "function", v |-> <<id>>]
NaN == [t |-> "NaN", v |-> <<>>]
Infinity == [t |-> "Infinity", v |-> <<>>]
NegZero == [t |-> "-0", v |-> <<>>]
\* a number that is not an integer, in tenths: Dec(24) is 2.4
Dec(tenths) == [t |-> "decimal", v |-> <<tenths>>]

\* typeof
TypeOf(x) ==
    IF x.t \in {"number", "decimal", "NaN", "Infinity", "-0"} THEN "number"
    ELSE IF x.t \in {"null", "array", "document"} THEN "object"
    ELSE x.t

\* literal texts used by the serializers
S_empty == <<>>
S_quote == <<34>>
S_lbrace == <<123>>
S_rbrace == <<125>>
S_colon == <<58>>
S_comma == <<44>>
S_minus == <<45>>
S_null == <<110, 117, 108, 108>>
S_true == <<116, 114, 117, 101>>
S_false == <<102, 97, 108, 115, 101>>
S_reviver == <<114, 101, 118, 105, 118, 101, 114>>

\* the digit d < 36 as a character: 0-9, a-z
DigitChar(d) == IF d < 10 THEN 48 + d ELSE 87 + d

\* Number.prototype.toString(10) of an integer
RECURSIVE NatDigits(_)
NatDigits(n) ==
    IF n < 10 THEN <<DigitChar(n)>> ELSE NatDigits(n \div 10) \o <<DigitChar(n % 10)>>

IntToString(n) == IF n < 0 THEN S_minus \o NatDigits(0 - n) ELSE NatDigits(n)

-----------------------------------------------------------------------------
\* hashString. A 32-bit integer is kept as its two 16-bit halves <<hi, lo>>
\* (two's complement), so that no intermediate result leaves the 32-bit range.

Word == 2^16

I32_zero == <<0, 0>>

\* x << 5
I32_shl5(x) ==
    LET lo == x[2] * 32
        hi == x[1] * 32 + (lo \div Word)
    IN <<hi % Word, lo % Word>>

\* ToInt32(x - y)
I32_sub(x, y) ==
    LET lo == x[2] - y[2]
        borrow == IF lo < 0 THEN 1 ELSE 0
        hi == x[1] - y[1] - borrow
    IN <<hi % Word, lo % Word>>

\* ToInt32(x + c) for a code unit c
I32_addChar(x, c) ==
    LET lo == x[2] + c
        hi == x[1] + (lo \div Word)
    IN <<hi % Word, lo % Word>>

I32_isNegative(x) == x[1] >= 32768

\* -x as an unsigned 32-bit magnitude
I32_negate(x) == I32_sub(I32_zero, x)

\* the digits of an unsigned 32-bit magnitude in radix 36
RECURSIVE U32_toString36(_)
U32_toString36(x) ==
    LET qh == x[1] \div 36
        rest == (x[1] % 36) * Word + x[2]
        ql == rest \div 36
        r == rest % 36
    IN IF qh = 0 /\ ql = 0 THEN <<DigitChar(r)>>
       ELSE U32_toString36(<<qh, ql>>) \o <<DigitChar(r)>>

\* hash.toString(36)
I32_toString36(x) ==
    IF I32_isNegative(x) THEN S_minus \o U32_toString36(I32_negate(x))
    ELSE U32_toString36(x)

\* one iteration of the loop body
hashStep(hash, char) == I32_addChar(I32_sub(I32_shl5(hash), hash), char)

\* the loop from index i on (1-based), `hash` holding the value so far
RECURSIVE hashLoop(_, _, _)
hashLoop(str, i, hash) ==
    IF i > Len(str) THEN hash
    ELSE LET next == hashStep(hash, str[i])
         IN IF next \in Seq(Int) THEN hashLoop(str, i + 1, next) ELSE next

hashString(str) == I32_toString36(hashLoop(str, 1, I32_zero))

-----------------------------------------------------------------------------
\* The built-in Map: entries in insertion order, as a sequence of [k, v].

RECURSIVE MapIndex(_, _)
MapIndex(m, key) ==
    IF m = <<>> THEN 0
    ELSE IF m[Len(m)].k = key /\ MapIndex(SubSeq(m, 1, Len(m) - 1), key) = 0
         THEN Len(m)
         ELSE MapIndex(SubSeq(m, 1, Len(m) - 1), key)

MapHas(m, key) == \E i \in 1..Len(m) : m[i].k = key

MapGet(m, key) ==
    IF MapHas(m, key) THEN m[MapIndex(m, key)].v ELSE Undefined

MapDelete(m, key) == SelectSeq(m, LAMBDA e : e.k # key)

\* Map.prototype.set keeps the position of a key that is already there.
MapSet(m, key, value) ==
    IF MapHas(m, key)
    THEN [i \in 1..Len(m) |-> IF m[i].k = key THEN [k |-> key, v |-> value] ELSE m[i]]
    ELSE Append(m, [k |-> key, v |-> value])

\* cache.keys().next(): the iterator result for the first key.
MapFirstKey(m) ==
    IF m = <<>> THEN [done |-> TRUE] ELSE [done |-> FALSE, value |-> m[1].k]

MapKeys(m) == {m[i].k : i \in 1..Len(m)}

-----------------------------------------------------------------------------
\* Objects and JSON.stringify. An object is [t |-> "object", v |-> fields],
\* its fields a sequence of [name, value] in insertion order.

Obj(fields) == [t |-> "object", v |-> fields]
Field(name, value) == [name |-> name, value |-> value]
EmptyObject == Obj(<<>>)

IsObject(x) == x.t = "object"

\* ToBoolean
Truthy(x) ==
    CASE x.t \in {"undefined", "null", "NaN", "-0"} -> FALSE
      [] x.t = "boolean" -> x.v = <<1>>
      [] x.t = "number" -> x.v # <<0>>
      [] x.t = "string" -> x.v # <<>>
      [] OTHER -> TRUE

HasField(obj, name) ==
    IsObject(obj) /\ \E i \in 1..Len(obj.v) : obj.v[i].name = name

\* obj.name: undefined when the object has no such field, and when obj is a
\* function, an array or a primitive
GetField(obj, name) ==
    IF HasField(obj, name)
    THEN (CHOOSE f \in {obj.v[i] : i \in 1..Len(obj.v)} : f.name = name).value
    ELSE Undefined

\* x || {}
OrEmpty(x) == IF Truthy(x) THEN x ELSE EmptyObject

\* JSON string escaping of the quote and the backslash
RECURSIVE JSONescape(_)
JSONescape(str) ==
    IF str = <<>> THEN <<>>
    ELSE (IF Head(str) \in {34, 92} THEN <<92, Head(str)>> ELSE <<Head(str)>>)
         \o JSONescape(Tail(str))

\* a value with no JSON text: the field holding it is left out
JSONomitted(x) == x.t \in {"undefined", "function", "symbol"}

\* JSON text of a primitive
JSONprimitive(x) ==
    CASE x.t = "string" -> S_quote \o JSONescape(x.v) \o S_quote
      [] x.t = "number" -> IntToString(x.v[1])
      [] x.t = "decimal" ->
           IntToString(x.v[1] \div 10) \o <<46>> \o IntToString(x.v[1] % 10)
      [] x.t = "-0" -> IntToString(0)
      [] x.t \in {"NaN", "Infinity", "null"} -> S_null
      [] x.t = "boolean" -> IF x.v = <<1>> THEN S_true ELSE S_false

\* the fields of an object from index i on, in insertion order; `first` tells
\* whether a field has been written already
RECURSIVE JSONfields(_, _, _)
JSONfields(fields, i, first) ==
    IF i > Len(fields) THEN <<>>
    ELSE IF JSONomitted(fields[i].value) THEN JSONfields(fields, i + 1, first)
    ELSE (IF first THEN <<>> ELSE S_comma)
         \o S_quote \o JSONescape(fields[i].name) \o S_quote \o S_colon
         \o JSONprimitive(fields[i].value)
         \o JSONfields(fields, i + 1, FALSE)

\* JSON.stringify of a primitive or of an object of primitives
JSONstringify(x) ==
    IF IsObject(x) THEN S_lbrace \o JSONfields(x.v, 1, TRUE) \o S_rbrace
    ELSE JSONprimitive(x)

\* option names and values
N_logLevel == <<108, 111, 103, 76, 101, 118, 101, 108>>
N_strict == <<115, 116, 114, 105, 99, 116>>
N_sortMapEntries == <<115, 111, 114, 116, 77, 97, 112, 69, 110, 116, 114, 105, 101, 115>>
N_indent == <<105, 110, 100, 101, 110, 116>>
N_keepUndefined == <<107, 101, 101, 112, 85, 110, 100, 101, 102, 105, 110, 101, 100>>
N_prettyErrors == <<112, 114, 101, 116, 116, 121, 69, 114, 114, 111, 114, 115>>
N_lineCounter == <<108, 105, 110, 101, 67, 111, 117, 110, 116, 101, 114>>
N_reviver == S_reviver
V_silent == Str(<<115, 105, 108, 101, 110, 116>>)
V_warn == Str(<<119, 97, 114, 110>>)

\* what an options argument says, whatever the order it was built in
OptionSet(options) ==
    IF IsObject(options) THEN {options.v[i] : i \in 1..Len(options.v)} ELSE {}

-----------------------------------------------------------------------------
\* The parse/compose engine and the documents it produces (Composer, Document,
\* YAMLParseError, prettifyError, warn): not part of the cache layer; modelled
\* by their contract.

\* the source texts tried
SrcEmpty == <<>>                                    \* ""
SrcWarn == <<37, 90, 10, 45, 45, 45, 10, 97>>       \* "%Z\n---\na"
SrcError == <<123, 91>>                             \* "{["
SrcMulti == <<97, 10, 45, 45, 45, 10, 98, 10, 45, 45, 45, 10, 99>>
                                                    \* "a\n---\nb\n---\nc"
Sources == {SrcEmpty, SrcWarn, SrcError, SrcMulti}

\* two more texts, each one document without errors or warnings
SrcMap == <<97, 58, 32, 49>>                        \* "a: 1", a mapping
SrcQuoted == <<34, 97, 34>>                         \* "\"a\"", the string a

\* a text with two unknown directives and an unclosed flow collection: one
\* document with two warnings and two errors
SrcWarnings == <<37, 90, 10, 37, 89, 10, 45, 45, 45, 10, 123, 91>>
                                                    \* "%Z\n%Y\n---\n{["

\* a reviver that returns undefined for every key, the root included
FnUndefined == Fn(5)

YAMLError(code, pos) == [code |-> code, pos |-> pos, pretty |-> FALSE]

\* the level a document logs at: options.logLevel, 'warn' when not given
DocLogLevel(options) ==
    IF HasField(options, N_logLevel) THEN GetField(options, N_logLevel) ELSE V_warn

NewDoc(src, index, isNull, range, errors, warnings, options) ==
    [t |-> "document", src |-> src, index |-> index, isNull |-> isNull,
     range |-> range, errors |-> errors, warnings |-> warnings,
     logLevel |-> DocLogLevel(options), opts |-> OptionSet(options)]

\* composer.compose(parser.parse(source), true, source.length): the documents
\* of the stream, in order; with forceDoc there is always at least one
Compose(src, options) ==
    CASE src = SrcEmpty ->
           <<NewDoc(src, 1, TRUE, <<0, 0, 0>>, <<>>, <<>>, options)>>
      [] src = SrcWarn ->
           <<NewDoc(src, 1, FALSE, <<7, 8, 8>>, <<>>,
                    <<YAMLError("BAD_DIRECTIVE", <<0, 2>>)>>, options)>>
      [] src = SrcError ->
           <<NewDoc(src, 1, FALSE, <<0, 2, 2>>,
                    <<YAMLError("MISSING_CHAR", <<1, 2>>),
                      YAMLError("BAD_INDENT", <<2, 2>>)>>,
                    <<YAMLError("BAD_COLLECTION_TYPE", <<0, 1>>)>>, options)>>
      [] src = SrcMulti ->
           <<NewDoc(src, 1, FALSE, <<0, 1, 2>>, <<>>, <<>>, options),
             NewDoc(src, 2, FALSE, <<6, 7, 8>>, <<>>, <<>>, options),
             NewDoc(src, 3, FALSE, <<12, 13, 13>>, <<>>, <<>>, options)>>
      [] src = SrcMap ->
           <<NewDoc(src, 1, FALSE, <<0, 4, 4>>, <<>>, <<>>, options)>>
      [] src = SrcQuoted ->
           <<NewDoc(src, 1, FALSE, <<0, 3, 3>>, <<>>, <<>>, options)>>
      [] src = SrcWarnings ->
           <<NewDoc(src, 1, FALSE, <<10, 12, 12>>,
                    <<YAMLError("MISSING_CHAR", <<11, 12>>),
                      YAMLError("BAD_INDENT", <<12, 12>>)>>,
                    <<YAMLError("BAD_DIRECTIVE", <<0, 2>>),
                      YAMLError("BAD_DIRECTIVE", <<3, 5>>)>>, options)>>

\* errors.forEach(prettifyError(source, lineCounter))
Prettify(errors) == [i \in 1..Len(errors) |-> [errors[i] EXCEPT !.pretty = TRUE]]

\* doc.toJS({reviver, ...options}): null for an empty document, otherwise a
\* value that depends on the source, the document and every option; a reviver
\* turns it into whatever the reviver makes of it
DocToJS(doc, reviver) ==
    LET plain == IF doc.isNull THEN Null
                 ELSE [t |-> "value", src |-> doc.src, index |-> doc.index,
                       opts |-> doc.opts]
    IN IF IsUndefined(reviver) THEN plain
       ELSE IF reviver = FnUndefined THEN Undefined
       ELSE [t |-> "revived", by |-> reviver, of |-> plain]

\* new Document(value, replacer, options).toString(options) and, for a value
\* that is a document already, value.toString(options)
DocToString(value, replacer, options, rebuilt) ==
    [t |-> "text", value |-> value, replacer |-> replacer,
     opts |-> OptionSet(options), rebuilt |-> rebuilt]

isDocument(value) == value.t = "document"

\* toJS of a mapping or a sequence is an object: the caller gets a reference
\* to it, not a copy
IsReference(x) == x.t = "value" /\ x.src \in {SrcError, SrcMap}

\* the object after the holder of a reference has changed it in place
Mutated(x) == [x EXCEPT !.t = "mutated"]

-----------------------------------------------------------------------------
\* class LRUCache / class TrackedLRUCache. An instance is a record
\* [cache, maxSize, hits, misses]; every method returns the instance after the
\* call (`self`) and, where the method returns one, its return value (`ret`).

NewTrackedLRUCache(maxSize) ==
    [cache |-> <<>>, maxSize |-> maxSize, hits |-> 0, misses |-> 0]

\* a get that returns the value without moving the entry to the end
LRUCache_get_noPromote(self, key) ==
    [self |-> self, ret |-> MapGet(self.cache, key)]

\* a get that takes a stored null for an absent entry
LRUCache_get_nullAbsent(self, key) ==
    LET value == MapGet(self.cache, key) IN
    IF value.t \notin {"undefined", "null"}
    THEN [self |-> [self EXCEPT !.cache = MapSet(MapDelete(self.cache, key), key, value)],
          ret |-> value]
    ELSE [self |-> self, ret |-> Undefined]

LRUCache_get(self, key) ==
    LET value == MapGet(self.cache, key) IN
    IF ~IsUndefined(value)
    THEN [self |-> [self EXCEPT !.cache = MapSet(MapDelete(self.cache, key), key, value)],
          ret |-> value]
    ELSE [self |-> self, ret |-> value]

\* a set that makes room before it looks whether the key is there already
LRUCache_set_evictsFirst(self, key, value) ==
    LET afterEvict ==
            IF Len(self.cache) >= self.maxSize
            THEN LET firstKey == MapFirstKey(self.cache) IN
                 IF firstKey.done THEN self.cache
                 ELSE MapDelete(self.cache, firstKey.value)
            ELSE self.cache
    IN [self EXCEPT !.cache = MapSet(MapDelete(afterEvict, key), key, value)]

LRUCache_set(self, key, value) ==
    LET afterDelete ==
            IF MapHas(self.cache, key)
            THEN MapDelete(self.cache, key)
            ELSE IF Len(self.cache) >= self.maxSize
                 THEN LET firstKey == MapFirstKey(self.cache) IN
                      \* delete(undefined) removes nothing
                      IF firstKey.done THEN self.cache
                      ELSE MapDelete(self.cache, firstKey.value)
                 ELSE self.cache
    IN [self EXCEPT !.cache = MapSet(afterDelete, key, value)]

\* a has that looks at the value instead of the key
LRUCache_has_byValue(self, key) == ~IsUndefined(MapGet(self.cache, key))

LRUCache_has(self, key) == MapHas(self.cache, key)

\* a clear that also zeroes the counters
LRUCache_clear_andStats(self) == [self EXCEPT !.cache = <<>>, !.hits = 0, !.misses = 0]

LRUCache_clear(self) == [self EXCEPT !.cache = <<>>]

LRUCache_size(self) == Len(self.cache)

\* a get with the two counters swapped
TrackedLRUCache_get_swapped(self, key) ==
    LET r == LRUCache_get(self, key) IN
    IF ~IsUndefined(r.ret)
    THEN [self |-> [r.self EXCEPT !.misses = @ + 1], ret |-> r.ret]
    ELSE [self |-> [r.self EXCEPT !.hits = @ + 1], ret |-> r.ret]

\* a get that counts a hit as a hit and a miss
TrackedLRUCache_get_doubleCount(self, key) ==
    LET r == LRUCache_get(self, key) IN
    IF ~IsUndefined(r.ret)
    THEN [self |-> [r.self EXCEPT !.hits = @ + 1, !.misses = @ + 1], ret |-> r.ret]
    ELSE [self |-> [r.self EXCEPT !.misses = @ + 1], ret |-> r.ret]

\* a get that, on a miss, reserves the key with a null entry
TrackedLRUCache_get_reserves(self, key) ==
    LET r == LRUCache_get(self, key) IN
    IF ~IsUndefined(r.ret)
    THEN [self |-> [r.self EXCEPT !.hits = @ + 1], ret |-> r.ret]
    ELSE [self |-> [LRUCache_set(r.self, key, Null) EXCEPT !.misses = @ + 1],
          ret |-> r.ret]

TrackedLRUCache_get(self, key) ==
    LET r == LRUCache_get(self, key) IN
    IF ~IsUndefined(r.ret)
    THEN [self |-> [r.self EXCEPT !.hits = @ + 1], ret |-> r.ret]
    ELSE [self |-> [r.self EXCEPT !.misses = @ + 1], ret |-> r.ret]

\* hitRate is a quotient of two counters; it is kept as the pair
\* <<numerator, denominator>>.
TrackedLRUCache_hitRate(self) ==
    LET total == self.hits + self.misses IN
    IF total = 0 THEN <<0, 1>> ELSE <<self.hits, total>>

TrackedLRUCache_stats(self) ==
    [hits |-> self.hits, misses |-> self.misses,
     hitRate |-> TrackedLRUCache_hitRate(self), size |-> LRUCache_size(self)]

TrackedLRUCache_resetStats(self) == [self EXCEPT !.hits = 0, !.misses = 0]

-----------------------------------------------------------------------------
\* SpecStore: one TrackedLRUCache of any capacity 0..MaxCapacity, driven by
\* arbitrary sequences of its public operations.

StoreKeys == {"k1", "k2", "k3"}
StoreValues == {Undefined, Null, Num(1)}

\* storeOp: the operation, its key, what it returned, and the instance and
\* the ghost access order as they were before the operation
StoreOp(op, key, ret) ==
    [op |-> op, key |-> key, ret |-> ret, before |-> store, recencyBefore |-> recency]

\* ghost bookkeeping of accesses: `key` becomes the most recently accessed of
\* the keys that are in the store after the operation
Touch(rec, key, storeAfter) ==
    LET present == SelectSeq(rec, LAMBDA k : k # key /\ MapHas(storeAfter.cache, k))
    IN IF MapHas(storeAfter.cache, key) THEN Append(present, key) ELSE present

Prune(rec, storeAfter) == SelectSeq(rec, LAMBDA k : MapHas(storeAfter.cache, k))

NoCall ==
    [op |-> "none", a1 |-> Undefined, a2 |-> Undefined, a3 |-> Undefined,
     outcome |-> "return", ret |-> Undefined, engine |-> 0, consumed |-> 0,
     warned |-> <<>>,
     before |-> [parse |-> NewTrackedLRUCache(CacheCapacity),
                 stringify |-> NewTrackedLRUCache(CacheCapacity)]]

\* the module-level caches as created when the module is loaded
InitApi ==
    /\ parseCache = NewTrackedLRUCache(CacheCapacity)
    /\ stringifyCache = NewTrackedLRUCache(CacheCapacity)
    /\ last = NoCall
    /\ nCalls = 0

InitStoreWith(maxSize) ==
    /\ store = NewTrackedLRUCache(maxSize)
    /\ recency = <<>>
    /\ storeOp = StoreOp("new", "k1", Undefined)
    /\ gets = 0
    /\ nOps = 0

InitStore == (\E n \in 0..MaxCapacity : InitStoreWith(n)) /\ InitApi

Init == InitStoreWith(CacheCapacity) /\ InitApi

StoreGet(key) ==
    /\ nOps < MaxStoreOps
    /\ UNCHANGED apiVars
    /\ LET r == TrackedLRUCache_get(store, key) IN
       /\ store' = r.self
       /\ storeOp' = StoreOp("get", key, r.ret)
       /\ recency' = IF ~IsUndefined(r.ret) THEN Touch(recency, key, r.self)
                     ELSE recency
    /\ gets' = gets + 1
    /\ nOps' = nOps + 1

StoreSet(key, value) ==
    /\ nOps < MaxStoreOps
    /\ UNCHANGED apiVars
    /\ store' = LRUCache_set(store, key, value)
    /\ storeOp' = StoreOp("set", key, value)
    /\ recency' = Touch(recency, key, store')
    /\ nOps' = nOps + 1
    /\ UNCHANGED gets

StoreHas(key) ==
    /\ nOps < MaxStoreOps
    /\ UNCHANGED apiVars
    /\ storeOp' = StoreOp("has", key, IF LRUCache_has(store, key) THEN True ELSE False)
    /\ nOps' = nOps + 1
    /\ UNCHANGED <<store, recency, gets>>

StoreClear ==
    /\ nOps < MaxStoreOps
    /\ UNCHANGED apiVars
    /\ store' = LRUCache_clear(store)
    /\ storeOp' = StoreOp("clear", "k1", Undefined)
    /\ recency' = Prune(recency, store')
    /\ nOps' = nOps + 1
    /\ UNCHANGED gets

StoreResetStats ==
    /\ nOps < MaxStoreOps
    /\ UNCHANGED apiVars
    /\ store' = TrackedLRUCache_resetStats(store)
    /\ storeOp' = StoreOp("resetStats", "k1", Undefined)
    /\ gets' = 0
    /\ nOps' = nOps + 1
    /\ UNCHANGED recency

StoreStats ==
    /\ nOps < MaxStoreOps
    /\ UNCHANGED apiVars
    /\ storeOp' = StoreOp("stats", "k1", TrackedLRUCache_stats(store))
    /\ nOps' = nOps + 1
    /\ UNCHANGED <<store, recency, gets>>

NextStore ==
    \/ \E key \in StoreKeys : StoreGet(key)
    \/ \E key \in StoreKeys, value \in StoreValues : StoreSet(key, value)
    \/ \E key \in StoreKeys : StoreHas(key)
    \/ StoreClear
    \/ StoreResetStats
    \/ StoreStats

SpecStore == InitStore /\ [][NextStore]_vars

-----------------------------------------------------------------------------
\* The arguments the entry points are called with.

FnA == Fn(1)
FnB == Fn(2)
FnReviver == Fn(3)
FnReplacer == Fn(4)
ArrayReplacer == [t |-> "array", v |-> <<>>]

O_sortA == Obj(<<Field(N_sortMapEntries, FnA)>>)
O_sortB == Obj(<<Field(N_sortMapEntries, FnB)>>)
O_silentStrict == Obj(<<Field(N_logLevel, V_silent), Field(N_strict, True)>>)
O_strictSilent == Obj(<<Field(N_strict, True), Field(N_logLevel, V_silent)>>)
O_indent2 == Obj(<<Field(N_indent, Num(2))>>)
O_reviverA == Obj(<<Field(N_reviver, FnA)>>)
O_reviverB == Obj(<<Field(N_reviver, FnB)>>)
O_reviverUndefined == Obj(<<Field(N_reviver, FnUndefined)>>)

\* (second argument, third argument) of the parse calls tried
ParseArgs ==
    {<<Undefined, Undefined>>, <<O_reviverA, Undefined>>, <<O_reviverB, Undefined>>,
     <<O_silentStrict, Undefined>>, <<O_strictSilent, Undefined>>,
     <<FnReviver, Undefined>>, <<FnReviver, O_silentStrict>>}

\* the options of the parseDocument and parseAllDocuments calls tried
DocumentArgs == {Undefined, O_silentStrict}
AllDocumentsArgs == {Undefined}

ADocument == Compose(SrcWarn, Undefined)[1]
StringifyValues == {Str(<<97>>), Undefined, [t |-> "array", v |-> <<1>>], ADocument}

\* (second argument, third argument) of the stringify calls tried
StringifyArgs ==
    {<<Undefined, Undefined>>, <<O_indent2, Undefined>>, <<O_sortA, Undefined>>,
     <<O_sortB, Undefined>>, <<FnReplacer, Undefined>>, <<ArrayReplacer, O_indent2>>}

OptionArgs ==
    {Undefined, O_sortA, O_sortB, O_silentStrict, O_strictSilent, O_indent2,
     O_reviverA, O_reviverB}

\* hashString over the texts the calls above give rise to, computed once
HashedTexts ==
    {src \o JSONstringify(OrEmpty(o)) : src \in Sources, o \in OptionArgs}
    \cup {JSONstringify(Str(<<97>>)) \o JSONstringify(OrEmpty(o)) : o \in OptionArgs}

    \cup {src \o JSONstringify(EmptyObject) : src \in {SrcMap, SrcQuoted}}

    \cup {SrcWarnings \o JSONstringify(OrEmpty(o)) : o \in {Undefined, O_silentStrict}}

    \cup {JSONstringify(v) \o JSONstringify(OrEmpty(o)) :
             v \in {Str(<<97>>), True, Null, Num(1), Dec(15)},
             o \in {Undefined} \cup {Obj(<<Field(N_indent, Num(n))>>) : n \in {1, 2, 3, 8}}}

hashMemo == [str \in HashedTexts |-> hashString(str)]

hashOf(str) == IF str \in DOMAIN hashMemo THEN hashMemo[str] ELSE hashString(str)

-----------------------------------------------------------------------------
\* The entry points. Each is an operator from its arguments and the cache it
\* uses to the outcome of the call: the cache afterwards, whether the call
\* returned or threw and what, how often it invoked the engine, how many
\* documents it took from the composer, and the warnings it passed to warn().

Nullish(x) == x.t \in {"undefined", "null"}

parseOptions(options) ==
    LET prettyErrors == ~(GetField(options, N_prettyErrors).t = "boolean"
                          /\ GetField(options, N_prettyErrors).v = <<0>>)
        lineCounter == Truthy(GetField(options, N_lineCounter)) \/ prettyErrors
    IN [lineCounter |-> lineCounter, prettyErrors |-> prettyErrors]

MultipleDocsError(_doc) == YAMLError("MULTIPLE_DOCS", SubSeq(_doc.range, 1, 2))

\* a loop that does not stop at the second document
RECURSIVE parseDocumentLoop_noBreak(_, _, _)
parseDocumentLoop_noBreak(docs, i, doc) ==
    IF i > Len(docs) THEN [doc |-> doc, consumed |-> Len(docs)]
    ELSE LET _doc == docs[i] IN
         IF ~Truthy(doc) THEN parseDocumentLoop_noBreak(docs, i + 1, _doc)
         ELSE IF doc.logLevel # V_silent
              THEN parseDocumentLoop_noBreak(docs, i + 1,
                       [doc EXCEPT !.errors = Append(@, MultipleDocsError(_doc))])
              ELSE parseDocumentLoop_noBreak(docs, i + 1, doc)

\* the for-of loop of parseDocument over the lazily composed documents, at the
\* i-th of them
RECURSIVE parseDocumentLoop(_, _, _)
parseDocumentLoop(docs, i, doc) ==
    IF i > Len(docs) THEN [doc |-> doc, consumed |-> Len(docs)]
    ELSE LET _doc == docs[i] IN
         IF ~Truthy(doc) THEN parseDocumentLoop(docs, i + 1, _doc)
         ELSE IF doc.logLevel # V_silent
              THEN [doc |-> [doc EXCEPT !.errors = Append(@, MultipleDocsError(_doc))],
                    consumed |-> i]
              ELSE parseDocumentLoop(docs, i + 1, doc)

parseDocument(source, options) ==
    LET po == parseOptions(options)
        r == parseDocumentLoop(Compose(source, options), 1, Null)
    IN IF po.prettyErrors /\ po.lineCounter
       THEN [doc |-> [r.doc EXCEPT !.errors = Prettify(@), !.warnings = Prettify(@)],
             consumed |-> r.consumed]
       ELSE r

parseAllDocuments(source, options) ==
    LET po == parseOptions(options)
        docs == Compose(source, options)
    IN IF po.prettyErrors /\ po.lineCounter
       THEN [i \in 1..Len(docs) |->
               [docs[i] EXCEPT !.errors = Prettify(@), !.warnings = Prettify(@)]]
       ELSE docs

Outcome(cache, outcome, ret, engine, consumed, warned) ==
    [cache |-> cache, outcome |-> outcome, ret |-> ret, engine |-> engine,
     consumed |-> consumed, warned |-> warned]

\* the reviver doc.toJS is given: Object.assign({ reviver: _reviver }, options)
ToJSReviver(_reviver, options) ==
    IF HasField(options, N_reviver) THEN GetField(options, N_reviver) ELSE _reviver

parseCacheKey(src, options, _reviver) ==
    hashOf(src \o JSONstringify(OrEmpty(options))
                   \o (IF Truthy(_reviver) THEN S_reviver ELSE S_empty))

\* the overloads of parse: which argument is the reviver, which the options
parseArgReviver(reviver, optionsArg) ==
    IF TypeOf(reviver) = "function" THEN reviver ELSE Undefined

parseArgOptions(reviver, optionsArg) ==
    IF TypeOf(reviver) # "function" /\ IsUndefined(optionsArg) /\ Truthy(reviver)
       /\ TypeOf(reviver) = "object"
    THEN reviver ELSE optionsArg

\* a decision that throws whatever the log level
parseThrows_anyLevel(doc) == Len(doc.errors) > 0

\* if (doc.errors.length > 0) { if (doc.options.logLevel !== 'silent') throw ...
parseThrows(doc) == Len(doc.errors) > 0 /\ doc.logLevel # V_silent

\* steps in which the errors are looked at before the warnings are logged
parseSteps_errorsFirst(doc, _reviver) ==
    LET warns == [i \in 1..Len(doc.warnings) |->
                    [step |-> "warn", arg |-> doc.warnings[i]]]
    IN IF parseThrows(doc)
       THEN <<[step |-> "throw", arg |-> doc.errors[1]]>>
       ELSE warns
            \o <<[step |-> "toJS", arg |-> Undefined]>>
            \o (IF ~Truthy(_reviver) THEN <<[step |-> "set", arg |-> Undefined]>>
                ELSE <<>>)
            \o <<[step |-> "return", arg |-> Undefined]>>

\* what parse does with the document it obtained, in the order of the code:
\* doc.warnings.forEach(warning => warn(doc.options.logLevel, warning)), then
\* the errors (throw doc.errors[0] unless silent), then doc.toJS, then
\* parseCache.set when there is no reviver argument, then return
parseSteps(doc, _reviver) ==
    LET warns == [i \in 1..Len(doc.warnings) |->
                    [step |-> "warn", arg |-> doc.warnings[i]]]
    IN warns
       \o (IF parseThrows(doc)
           THEN <<[step |-> "throw", arg |-> doc.errors[1]]>>
           ELSE <<[step |-> "toJS", arg |-> Undefined]>>
                \o (IF ~Truthy(_reviver) THEN <<[step |-> "set", arg |-> Undefined]>>
                    ELSE <<>>)
                \o <<[step |-> "return", arg |-> Undefined]>>)

\* a hit that composes the source again and logs its warnings
parseHit_reruns(src, options, looked) ==
    LET pd == parseDocument(src, options) IN
    Outcome(looked.self, "return", looked.ret, 1, pd.consumed, pd.doc.warnings)

\* if (cached !== undefined) return cached
parseHit(src, options, looked) ==
    Outcome(looked.self, "return", looked.ret, 0, 0, <<>>)

parse(src, reviver, optionsArg, cache) ==
    LET _reviver == parseArgReviver(reviver, optionsArg)
        options == parseArgOptions(reviver, optionsArg)
        cacheKey == parseCacheKey(src, options, _reviver)
        looked == IF ~Truthy(_reviver) THEN TrackedLRUCache_get(cache, cacheKey)
                  ELSE [self |-> cache, ret |-> Undefined]
    IN IF ~Truthy(_reviver) /\ ~IsUndefined(looked.ret)
       THEN parseHit(src, options, looked)
       ELSE
         LET pd == parseDocument(src, options)
             doc == pd.doc
             warns == SelectSeq(parseSteps(doc, _reviver), LAMBDA s : s.step = "warn")
             warned == [i \in 1..Len(warns) |-> warns[i].arg]
         IN IF ~Truthy(doc)
            THEN Outcome(IF ~Truthy(_reviver) THEN LRUCache_set(looked.self, cacheKey, Null)
                         ELSE looked.self,
                         "return", Null, 1, pd.consumed, <<>>)
            ELSE IF parseThrows(doc)
            THEN Outcome(looked.self, "throw", doc.errors[1], 1, pd.consumed, warned)
            ELSE
              LET result == DocToJS([doc EXCEPT !.errors = <<>>],
                                    ToJSReviver(_reviver, options))
              IN Outcome(IF ~Truthy(_reviver) THEN LRUCache_set(looked.self, cacheKey, result)
                         ELSE looked.self,
                         "return", result, 1, pd.consumed, warned)

\* Math.round: the nearest integer, a half rounding up
MathRound(n) ==
    IF n.t = "decimal" THEN Num((n.v[1] + 5) \div 10) ELSE n

\* a normalization that lets an indent below 1 through as indent 0
IndentOptions_zero(n) ==
    LET r == MathRound(n) IN
    CASE r.t = "NaN" -> Obj(<<Field(N_indent, NaN)>>)
      [] r.t = "Infinity" -> Obj(<<Field(N_indent, Num(8))>>)
      [] r.t = "-0" -> Obj(<<Field(N_indent, Num(0))>>)
      [] r.t = "number" ->
           LET indent == r.v[1] IN
           IF indent < 1 THEN Obj(<<Field(N_indent, Num(0))>>)
           ELSE IF indent > 8 THEN Obj(<<Field(N_indent, Num(8))>>)
           ELSE Obj(<<Field(N_indent, Num(indent))>>)

\* the options a bare number stands for
IndentOptions(n) ==
    LET r == MathRound(n) IN
    CASE r.t = "NaN" -> Obj(<<Field(N_indent, NaN)>>)
      [] r.t = "Infinity" -> Obj(<<Field(N_indent, Num(8))>>)
      [] r.t = "-0" -> Undefined
      [] r.t = "number" ->
           LET indent == r.v[1] IN
           IF indent < 1 THEN Undefined
           ELSE IF indent > 8 THEN Obj(<<Field(N_indent, Num(8))>>)
           ELSE Obj(<<Field(N_indent, Num(indent))>>)

stringifyCacheKey(value, options) ==
    hashOf(JSONstringify(value) \o JSONstringify(OrEmpty(options)))

\* a test that takes every number, finite or not
canCache_anyNumber(value) ==
    \/ TypeOf(value) = "string"
    \/ TypeOf(value) = "boolean"
    \/ TypeOf(value) = "number"
    \/ value.t = "null"

canCache(value) ==
    \/ TypeOf(value) = "string"
    \/ TypeOf(value) = "boolean"
    \/ value.t \in {"number", "decimal"}
    \/ value.t = "null"

\* the overloads of stringify: the replacer, and the options after the legacy
\* forms (a bare string, a bare number) are normalized
stringifyArgReplacer(replacer, optionsArg) ==
    IF TypeOf(replacer) = "function" \/ replacer.t = "array" THEN replacer ELSE Null

stringifyArgOptions(replacer, optionsArg) ==
    LET isReplacer == TypeOf(replacer) = "function" \/ replacer.t = "array"
        options1 == IF ~isReplacer /\ IsUndefined(optionsArg) /\ Truthy(replacer)
                    THEN replacer ELSE optionsArg
        options2 == IF TypeOf(options1) = "string" THEN Num(Len(options1.v)) ELSE options1
    IN IF TypeOf(options2) = "number" THEN IndentOptions(options2) ELSE options2

\* a stringify without the early return for undefined
skipsUndefined_never(value, replacer, options) == FALSE

\* if (value === undefined) { const { keepUndefined } = options ?? replacer
\* ?? {}; if (!keepUndefined) return undefined }, `options` normalized
skipsUndefined(value, replacer, options) ==
    LET keepFrom == IF ~Nullish(options) THEN options
                    ELSE IF ~Nullish(replacer) THEN replacer ELSE EmptyObject
    IN IsUndefined(value) /\ ~Truthy(GetField(keepFrom, N_keepUndefined))

stringify(value, replacer, optionsArg, cache) ==
    LET _replacer == stringifyArgReplacer(replacer, optionsArg)
        options == stringifyArgOptions(replacer, optionsArg)
    IN IF skipsUndefined(value, replacer, options)
       THEN Outcome(cache, "return", Undefined, 0, 0, <<>>)
       ELSE IF ~Truthy(_replacer) /\ ~isDocument(value) /\ canCache(value)
       THEN LET cacheKey == stringifyCacheKey(value, options)
                looked == TrackedLRUCache_get(cache, cacheKey)
            IN IF ~IsUndefined(looked.ret)
               THEN Outcome(looked.self, "return", looked.ret, 0, 0, <<>>)
               ELSE LET result == DocToString(value, _replacer, options, TRUE)
                    IN Outcome(LRUCache_set(looked.self, cacheKey, result),
                               "return", result, 1, 0, <<>>)
       ELSE IF isDocument(value) /\ ~Truthy(_replacer)
       THEN Outcome(cache, "return", DocToString(value, _replacer, options, FALSE), 1, 0, <<>>)
       ELSE Outcome(cache, "return", DocToString(value, _replacer, options, TRUE), 1, 0, <<>>)

getCacheStats(pc, sc) ==
    [parse |-> TrackedLRUCache_stats(pc), stringify |-> TrackedLRUCache_stats(sc)]

-----------------------------------------------------------------------------
\* Spec: the two module-level caches under arbitrary sequences of calls of
\* the entry points.

Call(op, a1, a2, a3, out) ==
    [op |-> op, a1 |-> a1, a2 |-> a2, a3 |-> a3,
     outcome |-> out.outcome, ret |-> out.ret, engine |-> out.engine,
     consumed |-> out.consumed, warned |-> out.warned,
     before |-> [parse |-> parseCache, stringify |-> stringifyCache]]

NoOutcome == Outcome(Undefined, "return", Undefined, 0, 0, <<>>)

\* the two module-level stores by name, and the store each entry point uses
ModuleCaches == [parse |-> parseCache, stringify |-> stringifyCache]

parseStore == "parse"

\* a stringify that uses the store of parse
stringifyStore_shared == "parse"

stringifyStore == "stringify"

ParseCall(src, reviver, options) ==
    /\ nCalls < MaxCalls
    /\ UNCHANGED storeVars
    /\ LET out == parse(src, reviver, options, ModuleCaches[parseStore])
           after == [ModuleCaches EXCEPT ![parseStore] = out.cache]
       IN /\ parseCache' = after.parse
          /\ stringifyCache' = after.stringify
          /\ last' = Call("parse", src, reviver, options, out)
    /\ nCalls' = nCalls + 1

\* document entry points that keep the tree they built in the store of parse
documentCaches_stored(caches, source, options, result) ==
    [caches EXCEPT
       !.parse = LRUCache_set(@, hashOf(source \o JSONstringify(OrEmpty(options))),
                              result)]

\* the caches after parseDocument or parseAllDocuments: neither function
\* refers to parseCache or to stringifyCache
documentCaches(caches, source, options, result) == caches

ParseDocumentCall(src, options) ==
    /\ nCalls < MaxCalls
    /\ UNCHANGED storeVars
    /\ LET pd == parseDocument(src, options)
           after == documentCaches(ModuleCaches, src, options, pd.doc)
       IN /\ parseCache' = after.parse
          /\ stringifyCache' = after.stringify
          /\ last' = Call("parseDocument", src, options, Undefined,
                          Outcome(Undefined, "return", pd.doc, 1, pd.consumed, <<>>))
    /\ nCalls' = nCalls + 1

ParseAllDocumentsCall(src, options) ==
    /\ nCalls < MaxCalls
    /\ UNCHANGED storeVars
    /\ LET docs == parseAllDocuments(src, options)
           after == documentCaches(ModuleCaches, src, options, docs)
       IN /\ parseCache' = after.parse
          /\ stringifyCache' = after.stringify
          /\ last' = Call("parseAllDocuments", src, options, Undefined,
                          Outcome(Undefined, "return", docs, 1, Len(docs), <<>>))
    /\ nCalls' = nCalls + 1

StringifyCall(value, replacer, options) ==
    /\ nCalls < MaxCalls
    /\ UNCHANGED storeVars
    /\ LET out == stringify(value, replacer, options, ModuleCaches[stringifyStore])
           after == [ModuleCaches EXCEPT ![stringifyStore] = out.cache]
       IN /\ parseCache' = after.parse
          /\ stringifyCache' = after.stringify
          /\ last' = Call("stringify", value, replacer, options, out)
    /\ nCalls' = nCalls + 1

GetCacheStatsCall ==
    /\ nCalls < MaxCalls
    /\ UNCHANGED storeVars
    /\ last' = Call("getCacheStats", Undefined, Undefined, Undefined,
                    [NoOutcome EXCEPT !.ret = getCacheStats(parseCache, stringifyCache)])
    /\ nCalls' = nCalls + 1
    /\ UNCHANGED <<parseCache, stringifyCache>>

ClearCachesCall ==
    /\ nCalls < MaxCalls
    /\ UNCHANGED storeVars
    /\ parseCache' = LRUCache_clear(parseCache)
    /\ stringifyCache' = LRUCache_clear(stringifyCache)
    /\ last' = Call("clearCaches", Undefined, Undefined, Undefined, NoOutcome)
    /\ nCalls' = nCalls + 1

\* parse returns the very instance it stores (a miss) or has stored (a hit):
\* every call without a reviver argument that returns
parseReturnsStored(c) ==
    /\ c.op = "parse" /\ c.outcome = "return"
    /\ ~Truthy(parseArgReviver(c.a2, c.a3))

\* The caller of the last parse call changes, in place, the object it got.
\* The Map holds a reference to the same object, so the entry changes with it.
MutateCall ==
    /\ nCalls < MaxCalls
    /\ UNCHANGED storeVars
    /\ last.op = "parse" /\ last.outcome = "return" /\ IsReference(last.ret)
    /\ LET key == parseCacheKey(last.a1, parseArgOptions(last.a2, last.a3),
                                parseArgReviver(last.a2, last.a3))
       IN parseCache' =
            IF parseReturnsStored(last) /\ MapHas(parseCache.cache, key)
            THEN [parseCache EXCEPT !.cache = MapSet(@, key, Mutated(last.ret))]
            ELSE parseCache
    /\ last' = Call("mutate", last.ret, Undefined, Undefined,
                    [NoOutcome EXCEPT !.ret = Mutated(last.ret)])
    /\ nCalls' = nCalls + 1
    /\ UNCHANGED stringifyCache

Next ==
    \/ \E src \in Sources, args \in ParseArgs : ParseCall(src, args[1], args[2])
    \/ \E src \in Sources, options \in DocumentArgs : ParseDocumentCall(src, options)
    \/ \E src \in Sources, options \in AllDocumentsArgs : ParseAllDocumentsCall(src, options)
    \/ \E value \in StringifyValues, args \in StringifyArgs :
         StringifyCall(value, args[1], args[2])
    \/ GetCacheStatsCall
    \/ ClearCachesCall

Spec == Init /\ [][Next]_vars

-----------------------------------------------------------------------------
\* Properties of the entry points (checked under Spec).

\* the reviver and the options of a recorded parse call
CallReviver(c) == parseArgReviver(c.a2, c.a3)
CallOptions(c) == parseArgOptions(c.a2, c.a3)

\* a parse call without a reviver argument, the one before it and this one
\* having the same source and the same arguments
SameParseAgain ==
    /\ last.op = "parse" /\ last'.op = "parse"
    /\ nCalls' = nCalls + 1
    /\ IsUndefined(CallReviver(last'))
    /\ last'.a1 = last.a1 /\ last'.a2 = last.a2 /\ last'.a3 = last.a3

SecondIsHit ==
    /\ last'.outcome = "return" /\ last.outcome = "return"
    /\ last'.ret = last.ret
    /\ parseCache'.hits = parseCache.hits + 1
    /\ parseCache'.misses = parseCache.misses

\* C1 as stated: for every parse input without a reviver, the second of two
\* identical calls in a row returns a value equal to the first's and adds 1 to
\* hits and nothing to misses.
C1_Idempotent == [][SameParseAgain => SecondIsHit]_vars

\* C1: when the first of two identical parse calls in a row (no reviver,
\* neither as an argument nor in the options) returns a value, the second
\* returns an equal value without invoking the engine, adds exactly 1 to hits
\* and leaves misses unchanged.
C1_IdempotentWhenReturned ==
    [][(/\ SameParseAgain
        /\ IsUndefined(ToJSReviver(CallReviver(last'), CallOptions(last')))
        /\ last.outcome = "return") =>
          (SecondIsHit /\ last'.engine = 0)]_vars

\* C1 witness: the second of two identical calls (the key of this source and
\* these options is produced by no other call tried) was a hit.
C1_Witness ==
    /\ nCalls = 2
    /\ last.op = "parse" /\ last.a1 = SrcWarn /\ last.a2 = O_silentStrict
    /\ last.before.parse.misses = 1 /\ last.before.parse.hits = 0
    /\ parseCache.hits = 1 /\ parseCache.misses = 1
    /\ last.engine = 0 /\ last.ret.t = "value"

\* a reviver is supplied: as the second argument or as options.reviver
SuppliesReviver(c) ==
    /\ c.op = "parse"
    /\ \/ TypeOf(c.a2) = "function"
       \/ TypeOf(GetField(CallOptions(c), N_reviver)) = "function"

SuppliesReplacer(c) ==
    /\ c.op = "stringify"
    /\ (TypeOf(c.a2) = "function" \/ c.a2.t = "array")

CachesUntouched ==
    /\ parseCache = last.before.parse
    /\ stringifyCache = last.before.stringify

\* C2: a parse call that supplies a reviver and a stringify call that
\* supplies a replacer (function or array) leave hits, misses, size and the
\* entries of both caches exactly as they were.
C2_FunctionalArgsBypassCache ==
    (SuppliesReviver(last) \/ SuppliesReplacer(last)) => CachesUntouched

\* The part of C2 that holds: a reviver given as the second argument of parse,
\* and a replacer given to stringify, bypass both caches.
C2_PositionalArgsBypassCache ==
    ((last.op = "parse" /\ TypeOf(last.a2) = "function") \/ SuppliesReplacer(last))
        => CachesUntouched

MultipleDocsErrors(doc) == SelectSeq(doc.errors, LAMBDA e : e.code = "MULTIPLE_DOCS")

\* parseDocument was called on a source that composes to two or more documents
ParseDocumentOfMany ==
    /\ last.op = "parseDocument"
    /\ Len(Compose(last.a1, last.a2)) >= 2

GuardRaised ==
    LET docs == Compose(last.a1, last.a2) IN
    /\ last.outcome = "return"
    /\ last.ret.index = 1
    /\ Len(MultipleDocsErrors(last.ret)) = 1
    /\ Len(last.ret.errors) = Len(docs[1].errors) + 1
    /\ MultipleDocsErrors(last.ret)[1].pos = SubSeq(docs[2].range, 1, 2)
    /\ last.consumed = 2

\* C5 as stated: for every source of two or more documents and every log
\* level, parseDocument returns the first document with exactly one
\* multiple-documents error carrying the range of the second document, does
\* not throw, and consumes no document after the second.
C5_GuardAtEveryLevel == ParseDocumentOfMany => GuardRaised

\* C5: for every source of two or more documents parseDocument returns the
\* first document and does not throw; when the log level of that document is
\* not silent it adds exactly one multiple-documents error carrying the range
\* of the second document and consumes no document after the second; when it
\* is silent it adds no error and consumes every document of the stream.
C5_GuardUnlessSilent ==
    ParseDocumentOfMany =>
        LET docs == Compose(last.a1, last.a2) IN
        IF DocLogLevel(last.a2) # V_silent THEN GuardRaised
        ELSE /\ last.outcome = "return"
             /\ last.ret.index = 1
             /\ MultipleDocsErrors(last.ret) = <<>>
             /\ Len(last.ret.errors) = Len(docs[1].errors)
             /\ last.consumed = Len(docs)

\* C5 witness: parseDocument of the three-document source at the default log
\* level stopped at the second document.
C5_Witness ==
    /\ last.op = "parseDocument" /\ last.a1 = SrcMulti /\ IsUndefined(last.a2)
    /\ last.consumed = 2
    /\ Len(last.ret.errors) = 1
    /\ last.ret.errors[1].code = "MULTIPLE_DOCS"
    /\ last.ret.errors[1].pos = <<6, 7>>

\* two options objects with the same fields in the same order that differ in
\* the value of exactly one field
DifferInOneField(o1, o2) ==
    /\ IsObject(o1) /\ IsObject(o2)
    /\ Len(o1.v) = Len(o2.v)
    /\ \A i \in 1..Len(o1.v) : o1.v[i].name = o2.v[i].name
    /\ Cardinality({i \in 1..Len(o1.v) : o1.v[i].value # o2.v[i].value}) = 1

\* what the engine computes for a recorded call's own arguments
OwnParseResult(c) ==
    DocToJS([parseDocument(c.a1, CallOptions(c)).doc EXCEPT !.errors = <<>>],
            ToJSReviver(CallReviver(c), CallOptions(c)))

OwnStringifyResult(c) ==
    DocToString(c.a1, stringifyArgReplacer(c.a2, c.a3),
                stringifyArgOptions(c.a2, c.a3), TRUE)

\* C6: two parse calls on the same source, and two stringify calls on the same
\* value, whose options differ in the value of exactly one field share no
\* cache entry: the second is a miss and returns the result computed for its
\* own options.
C6_KeySensitive ==
    [][/\ (/\ last.op = "parse" /\ last'.op = "parse"
           /\ nCalls' = nCalls + 1
           /\ IsUndefined(CallReviver(last)) /\ IsUndefined(CallReviver(last'))
           /\ last'.a1 = last.a1
           /\ DifferInOneField(CallOptions(last), CallOptions(last')))
          => /\ parseCache'.misses = parseCache.misses + 1
             /\ parseCache'.hits = parseCache.hits
             /\ last'.outcome = "return" => last'.ret = OwnParseResult(last')
       /\ (/\ last.op = "stringify" /\ last'.op = "stringify"
           /\ nCalls' = nCalls + 1
           /\ ~SuppliesReplacer(last) /\ ~SuppliesReplacer(last')
           /\ last'.a1 = last.a1 /\ canCache(last.a1)
           /\ DifferInOneField(stringifyArgOptions(last.a2, last.a3),
                               stringifyArgOptions(last'.a2, last'.a3)))
          => /\ stringifyCache'.misses = stringifyCache.misses + 1
             /\ stringifyCache'.hits = stringifyCache.hits
             /\ last'.ret = OwnStringifyResult(last')]_vars

\* C7: two parse calls in a row with the same source and options that hold
\* the same fields and values in a different insertion order compute the same
\* key, so the second (the first having returned) is a cache hit.
C7_KeyIgnoresFieldOrder ==
    [][(/\ last.op = "parse" /\ last'.op = "parse"
        /\ nCalls' = nCalls + 1
        /\ IsUndefined(CallReviver(last)) /\ IsUndefined(CallReviver(last'))
        /\ last'.a1 = last.a1
        /\ IsObject(CallOptions(last)) /\ IsObject(CallOptions(last'))
        /\ OptionSet(CallOptions(last)) = OptionSet(CallOptions(last'))
        /\ last.outcome = "return")
       => /\ parseCacheKey(last.a1, CallOptions(last), Undefined)
               = parseCacheKey(last'.a1, CallOptions(last'), Undefined)
          /\ parseCache'.hits = parseCache.hits + 1
          /\ last'.engine = 0]_vars

\* the last call was a parse call that went to the engine (a miss, or a call
\* with a reviver) and got a document with errors
ParseGotErrors ==
    /\ last.op = "parse"
    /\ last.engine = 1
    /\ Len(parseDocument(last.a1, CallOptions(last)).doc.errors) > 0

\* C8: a parse call that goes to the engine and gets a document with a
\* non-empty error list raises the first error of the list when the
\* document's log level is not silent (and then stores nothing); when it is
\* silent the call returns the converted value and, no reviver being given,
\* stores it under the key of the call.
C8_ErrorsRaisedUnlessSilent ==
    ParseGotErrors =>
        LET doc == parseDocument(last.a1, CallOptions(last)).doc
            key == parseCacheKey(last.a1, CallOptions(last), CallReviver(last))
        IN IF doc.logLevel # V_silent
           THEN /\ last.outcome = "throw"
                /\ last.ret = doc.errors[1]
                /\ parseCache.cache = last.before.parse.cache
           ELSE /\ last.outcome = "return"
                /\ last.ret = OwnParseResult(last)
                /\ IsUndefined(CallReviver(last)) =>
                     /\ MapHas(parseCache.cache, key)
                     /\ MapGet(parseCache.cache, key) = last.ret
                /\ ~IsUndefined(CallReviver(last)) =>
                     parseCache = last.before.parse

\* C8 witness: the source with two errors, parsed silently without a reviver,
\* returned its value and the value is in the cache.
C8_Witness ==
    /\ last.op = "parse" /\ last.a1 = SrcError /\ last.a2 = O_silentStrict
    /\ last.engine = 1 /\ last.outcome = "return"
    /\ last.ret.t = "value"
    /\ LRUCache_size(parseCache) = 1
    /\ parseCache.cache[1].v = last.ret

\* a parse call at the default level raised the first of the two errors
C8_ThrowReached ==
    /\ last.op = "parse" /\ last.a1 = SrcError /\ IsUndefined(last.a2)
    /\ last.outcome = "throw"
    /\ last.ret.code = "MISSING_CHAR"

\* C17: a null parse result is cached and told apart from an absent entry:
\* a parse call without a reviver that returns null leaves null stored under
\* its key, and the next identical call is a hit (hits + 1, misses unchanged,
\* no engine invocation) that returns null.
C17_NullIsCached ==
    [][/\ (/\ last'.op = "parse" /\ nCalls' = nCalls + 1
           /\ IsUndefined(CallReviver(last'))
           /\ last'.outcome = "return" /\ last'.ret = Null)
          => LET key == parseCacheKey(last'.a1, CallOptions(last'), Undefined)
             IN /\ MapHas(parseCache'.cache, key)
                /\ MapGet(parseCache'.cache, key) = Null
       /\ (SameParseAgain /\ last.outcome = "return" /\ last.ret = Null)
          => /\ last'.outcome = "return" /\ last'.ret = Null
             /\ last'.engine = 0
             /\ parseCache'.hits = parseCache.hits + 1
             /\ parseCache'.misses = parseCache.misses]_vars

\* C17 witness: the empty source parsed twice: the second call returned null
\* from the cache.
C17_Witness ==
    /\ nCalls = 2
    /\ last.op = "parse" /\ last.a1 = SrcEmpty /\ IsUndefined(last.a2)
    /\ last.ret = Null /\ last.engine = 0
    /\ parseCache.hits = 1 /\ parseCache.misses = 1
    /\ parseCache.cache[1].v = Null

\* the last call was a parse call that counted a hit
ParseCountedHit ==
    /\ last.op = "parse"
    /\ parseCache.hits = last.before.parse.hits + 1

\* C18: on a parse cache hit the call returns the stored value at once: the
\* engine is not invoked, no document is composed, no warning is logged and no
\* error is raised, whatever the populating call logged or discarded.
C18_HitHasNoSideEffects ==
    ParseCountedHit =>
        LET key == parseCacheKey(last.a1, CallOptions(last), Undefined) IN
        /\ last.outcome = "return"
        /\ last.ret = MapGet(last.before.parse.cache, key)
        /\ last.engine = 0 /\ last.consumed = 0
        /\ last.warned = <<>>
        /\ MapKeys(parseCache.cache) = MapKeys(last.before.parse.cache)
        /\ \A k \in MapKeys(parseCache.cache) :
             MapGet(parseCache.cache, k) = MapGet(last.before.parse.cache, k)
        /\ parseCache.misses = last.before.parse.misses

\* C18 witness: a hit for the source whose populating call passed a warning to
\* warn() and discarded two errors (log level silent).
C18_Witness ==
    /\ ParseCountedHit
    /\ last.a1 = SrcError /\ last.a2 = O_silentStrict
    /\ Len(Compose(SrcError, O_silentStrict)[1].warnings) = 1
    /\ Len(Compose(SrcError, O_silentStrict)[1].errors) = 2
    /\ last.warned = <<>> /\ last.engine = 0
    /\ last.ret.t = "value"

\* C24: parseDocument and parseAllDocuments neither read nor write a cache:
\* hits, misses, size and the entries of the parse cache and of the stringify
\* cache are after the call what they were before it, and the call invokes
\* the engine.
C24_DocumentCallsBypassCaches ==
    last.op \in {"parseDocument", "parseAllDocuments"} =>
        /\ TrackedLRUCache_stats(parseCache) = TrackedLRUCache_stats(last.before.parse)
        /\ TrackedLRUCache_stats(stringifyCache)
              = TrackedLRUCache_stats(last.before.stringify)
        /\ parseCache.cache = last.before.parse.cache
        /\ stringifyCache.cache = last.before.stringify.cache
        /\ last.engine = 1 /\ last.consumed >= 1

\* C24 witness: parseDocument of a text that parse has stored and served from
\* the cache composed the text again and left one hit, one miss, one entry.
C24_Witness ==
    /\ last.op = "parseDocument" /\ last.a1 = SrcWarn
    /\ last.engine = 1 /\ isDocument(last.ret)
    /\ parseCache.hits = 1 /\ parseCache.misses = 1
    /\ LRUCache_size(parseCache) = 1
    /\ parseCache.cache[1].v.t = "value" /\ parseCache.cache[1].v.src = SrcWarn

\* parseAllDocuments after a stringify call that stored its text
C24_AllDocumentsReached ==
    /\ last.op = "parseAllDocuments" /\ Len(last.ret) = 3
    /\ LRUCache_size(stringifyCache) = 1 /\ stringifyCache.misses = 1

-----------------------------------------------------------------------------
\* Properties of the store (checked under SpecStore).

\* C3: for a store of any capacity N >= 0, after any sequence of get, set,
\* has and clear operations the size of the store is at most N.
C3_SizeAtMostCapacity == LRUCache_size(store) <= store.maxSize

\* The keys of the store are exactly the keys of the ghost access order.
RecencyTracksStore ==
    /\ {recency[i] : i \in 1..Len(recency)} = MapKeys(store.cache)
    /\ Len(recency) = Len(store.cache)

\* the last operation was a set of a new key on a full store of capacity >= 1
SetOnFullStore ==
    /\ storeOp.op = "set"
    /\ storeOp.before.maxSize >= 1
    /\ Len(storeOp.before.cache) = storeOp.before.maxSize
    /\ ~MapHas(storeOp.before.cache, storeOp.key)

\* C4: a set of a new key on a full store of capacity N >= 1 removes exactly
\* one entry, the one whose most recent access (a get that returned a value,
\* or a set) is the oldest, keeps every other entry with its value, and leaves
\* the new key present: N entries remain.
C4_EvictsLeastRecentlyUsed ==
    /\ RecencyTracksStore
    /\ SetOnFullStore =>
         LET lru == storeOp.recencyBefore[1]
             old == storeOp.before.cache
         IN /\ MapHas(old, lru)
            /\ ~MapHas(store.cache, lru)
            /\ MapKeys(store.cache) = (MapKeys(old) \ {lru}) \cup {storeOp.key}
            /\ \A k \in MapKeys(old) \ {lru} : MapGet(store.cache, k) = MapGet(old, k)
            /\ MapGet(store.cache, storeOp.key) = storeOp.ret
            /\ LRUCache_size(store) = store.maxSize

\* C4 witness: an eviction from a store of capacity 2 in which the evicted
\* entry is not the one that was inserted first (a get has reordered them).
C4_Witness ==
    /\ SetOnFullStore
    /\ store.maxSize = 2
    /\ storeOp.recencyBefore[1] = "k2"
    /\ storeOp.before.hits = 1
    /\ ~MapHas(store.cache, "k2")
    /\ MapHas(store.cache, "k1")

\* C9: every get increments exactly one counter by exactly 1, hits when the
\* key is in the store (whatever value is stored under it) and misses when it
\* is not; set, has, clear and reading stats change neither counter.
C9_GetCountsPresence ==
    /\ storeOp.op = "get" =>
         IF LRUCache_has(storeOp.before, storeOp.key)
         THEN store.hits = storeOp.before.hits + 1 /\ store.misses = storeOp.before.misses
         ELSE store.misses = storeOp.before.misses + 1 /\ store.hits = storeOp.before.hits
    /\ storeOp.op \in {"set", "has", "clear", "stats"} =>
         store.hits = storeOp.before.hits /\ store.misses = storeOp.before.misses

\* C10: hits and misses are non-negative, only resetStats lowers them, their
\* sum is the number of get calls since the last resetStats (or creation), and
\* hitRate is 0 when the sum is 0 and otherwise hitRate * (hits + misses) = hits.
C10_StatsArithmetic ==
    LET s == TrackedLRUCache_stats(store)
        total == s.hits + s.misses
    IN /\ s.hits >= 0 /\ s.misses >= 0
       /\ storeOp.op # "resetStats" =>
            s.hits >= storeOp.before.hits /\ s.misses >= storeOp.before.misses
       /\ total = gets
       /\ s.hitRate[2] # 0
       /\ total = 0 => s.hitRate[1] = 0
       /\ total # 0 => s.hitRate[1] * total = s.hits * s.hitRate[2]

\* C10 witness: one hit and two misses counted after a resetStats.
C10_Witness ==
    /\ store.hits = 1
    /\ store.misses = 2
    /\ gets = 3
    /\ nOps = MaxStoreOps
    /\ TrackedLRUCache_hitRate(store) = <<1, 3>>

\* the key the store would evict next is the first of the Map, the key used
\* most recently its last
MostRecentKey(self) == self.cache[Len(self.cache)].k

\* C19: get(k) on a key that is in the store returns the value stored under k
\* and makes k the most recently used entry, whatever the value; get on a key
\* that is not in the store returns absent and changes neither the contents
\* nor the order of recency.
C19_GetPromotesPresentKey ==
    storeOp.op = "get" =>
        LET old == storeOp.before.cache IN
        IF MapHas(old, storeOp.key)
        THEN /\ storeOp.ret = MapGet(old, storeOp.key)
             /\ MostRecentKey(store) = storeOp.key
             /\ MapKeys(store.cache) = MapKeys(old)
             /\ \A k \in MapKeys(old) : MapGet(store.cache, k) = MapGet(old, k)
        ELSE /\ IsUndefined(storeOp.ret)
             /\ store.cache = old

\* a get of a key holding a value other than undefined moved it behind another
C19_PromotionReached ==
    /\ storeOp.op = "get" /\ ~IsUndefined(storeOp.ret)
    /\ Len(store.cache) = 2
    /\ storeOp.before.cache[1].k = storeOp.key
    /\ MostRecentKey(store) = storeOp.key

\* the last operation was a set of a key that was in the store
SetOfPresentKey ==
    /\ storeOp.op = "set"
    /\ MapHas(storeOp.before.cache, storeOp.key)

\* C20: set(k, v) on a key that is in the store replaces its value by v, makes
\* k the most recently used entry, evicts nothing and leaves the size as it
\* was, also when the store is at capacity.
C20_SetReplacesAndPromotes ==
    SetOfPresentKey =>
        LET old == storeOp.before.cache IN
        /\ MapGet(store.cache, storeOp.key) = storeOp.ret
        /\ MostRecentKey(store) = storeOp.key
        /\ MapKeys(store.cache) = MapKeys(old)
        /\ LRUCache_size(store) = Len(old)
        /\ \A k \in MapKeys(old) \ {storeOp.key} : MapGet(store.cache, k) = MapGet(old, k)
        /\ \A i, j \in 1..Len(old) :
             (i < j /\ old[i].k # storeOp.key /\ old[j].k # storeOp.key)
                => MapIndex(store.cache, old[i].k) < MapIndex(store.cache, old[j].k)

\* C20 witness: in a full store of capacity 2 the older key was set again with
\* another value: both keys are still there and the key set is now the last.
C20_Witness ==
    /\ SetOfPresentKey
    /\ store.maxSize = 2 /\ Len(storeOp.before.cache) = 2
    /\ storeOp.before.cache[1].k = storeOp.key
    /\ storeOp.before.cache[1].v # storeOp.ret
    /\ Len(store.cache) = 2
    /\ store.cache[2] = [k |-> storeOp.key, v |-> storeOp.ret]

\* C21: has(k) reports exactly whether k is in the store and has no side
\* effect: the entries, their order of recency (hence the entry the next
\* eviction removes) and the counters hits and misses are as before.
C21_HasIsPure ==
    storeOp.op = "has" =>
        /\ storeOp.ret = (IF storeOp.key \in MapKeys(storeOp.before.cache)
                          THEN True ELSE False)
        /\ store = storeOp.before
        /\ recency = storeOp.recencyBefore
        /\ MapFirstKey(store.cache) = MapFirstKey(storeOp.before.cache)

\* C21 witness: in a store of two entries that has counted a get, has of the
\* least recently used key, which holds undefined, answered true and the key
\* is still the one to be evicted next.
C21_Witness ==
    /\ storeOp.op = "has" /\ storeOp.ret = True
    /\ Len(store.cache) = 2
    /\ store.cache[1].k = storeOp.key
    /\ IsUndefined(store.cache[1].v)
    /\ store.hits + store.misses = 1
    /\ store = storeOp.before

-----------------------------------------------------------------------------
\* SpecClear: one store of any capacity and the two module-level caches side
\* by side, MaxClearSteps operations in all.

ClearBudget == nOps + nCalls < MaxClearSteps

NextClear ==
    \/ \E key \in StoreKeys : ClearBudget /\ StoreGet(key)
    \/ \E key \in StoreKeys, value \in StoreValues : ClearBudget /\ StoreSet(key, value)
    \/ \E key \in StoreKeys : ClearBudget /\ StoreHas(key)
    \/ ClearBudget /\ StoreClear
    \/ ClearBudget /\ StoreResetStats
    \/ ClearBudget /\ StoreStats
    \/ \E src \in {SrcEmpty, SrcWarn} : ClearBudget /\ ParseCall(src, Undefined, Undefined)
    \/ ClearBudget /\ StringifyCall(Str(<<97>>), Undefined, Undefined)
    \/ ClearBudget /\ GetCacheStatsCall
    \/ ClearBudget /\ ClearCachesCall

SpecClear == InitStore /\ [][NextClear]_vars

\* C11: clear empties the entries of the store and leaves hits and misses as
\* they were, and so does clearCaches for both module-level caches; resetStats
\* sets hits and misses to 0 and leaves the entries, their values and their
\* order of recency as they were.
C11_ClearAndResetIndependent ==
    /\ storeOp.op = "clear" =>
         /\ store.cache = <<>>
         /\ store.hits = storeOp.before.hits
         /\ store.misses = storeOp.before.misses
    /\ storeOp.op = "resetStats" =>
         /\ store.hits = 0 /\ store.misses = 0
         /\ store.cache = storeOp.before.cache
         /\ recency = storeOp.recencyBefore
    /\ last.op = "clearCaches" =>
         /\ parseCache.cache = <<>> /\ stringifyCache.cache = <<>>
         /\ parseCache.hits = last.before.parse.hits
         /\ parseCache.misses = last.before.parse.misses
         /\ stringifyCache.hits = last.before.stringify.hits
         /\ stringifyCache.misses = last.before.stringify.misses

\* C11 witness: clearCaches emptied both caches, each holding an entry and
\* having counted a miss, and the counters kept their values.
C11_Witness ==
    /\ last.op = "clearCaches"
    /\ Len(last.before.parse.cache) = 1 /\ Len(last.before.stringify.cache) = 1
    /\ parseCache.cache = <<>> /\ stringifyCache.cache = <<>>
    /\ parseCache.misses = 1 /\ stringifyCache.misses = 1

\* a resetStats on a store holding two entries and having counted a get
C11_ResetReached ==
    /\ storeOp.op = "resetStats"
    /\ storeOp.before.hits + storeOp.before.misses > 0
    /\ Len(store.cache) >= 1
    /\ store.hits = 0 /\ store.misses = 0

\* a clear of a store that held an entry and had counted a hit
C11_ClearReached ==
    /\ storeOp.op = "clear"
    /\ Len(storeOp.before.cache) = 1
    /\ store.hits = 1

-----------------------------------------------------------------------------
\* SpecAlias: parse and stringify on texts and values that produce the same
\* key text, and a caller that changes the object parse gave it.

NextAlias ==
    \/ \E src \in {SrcMap, SrcQuoted}, reviver \in {Undefined, FnReviver} :
         ParseCall(src, reviver, Undefined)
    \/ StringifyCall(Str(<<97>>), Undefined, Undefined)
    \/ MutateCall
    \/ GetCacheStatsCall
    \/ ClearCachesCall

SpecAlias == Init /\ [][NextAlias]_vars

\* the last call was a parse call answered from the cache
ParseHit ==
    /\ last.op = "parse" /\ last.outcome = "return"
    /\ parseCache.hits = last.before.parse.hits + 1

\* C12: a value stored in the parse cache is owned by the cache alone: a
\* caller that changes the value it received from parse does not change what
\* a later hit returns, which is the value computed for the call's arguments.
C12_StoredValueNotAliased == ParseHit => last.ret = OwnParseResult(last)

\* the caller's change of the object it holds changed the stored entry
C12_MutationReachesCache ==
    /\ last.op = "mutate"
    /\ parseCache.cache # last.before.parse.cache

-----------------------------------------------------------------------------
\* SpecParse: parse on a text whose document has two warnings and two errors
\* and on the empty text, at the default and at the silent log level, with a
\* reviver argument and with a reviver in the options that returns undefined;
\* stringify on a string.

NextParse ==
    \/ \E src \in {SrcEmpty, SrcWarnings},
          args \in {<<Undefined, Undefined>>, <<O_silentStrict, Undefined>>,
                    <<FnReviver, Undefined>>, <<O_reviverUndefined, Undefined>>} :
         ParseCall(src, args[1], args[2])
    \/ StringifyCall(Str(<<97>>), Undefined, Undefined)
    \/ GetCacheStatsCall
    \/ ClearCachesCall

SpecParse == Init /\ [][NextParse]_vars

\* the last call was a parse call that went to the engine
ParseComposed == last.op = "parse" /\ last.engine = 1

\* the document the last parse call obtained and the steps it took with it
LastDoc == parseDocument(last.a1, CallOptions(last)).doc
LastSteps == parseSteps(LastDoc, CallReviver(last))

\* C22: a parse call that obtains a document (a miss or a call with a
\* reviver argument) passes every warning of the document to warn(), in the
\* order of the list, before it raises an error and before it converts or
\* stores the value; the warnings are passed also when the call then raises.
C22_WarningsLoggedFirst ==
    ParseComposed =>
        /\ last.warned = LastDoc.warnings
        /\ \A i \in 1..Len(LastSteps) :
              \/ i <= Len(LastDoc.warnings)
                 /\ LastSteps[i] = [step |-> "warn", arg |-> LastDoc.warnings[i]]
              \/ i > Len(LastDoc.warnings)
                 /\ LastSteps[i].step \in {"throw", "toJS", "set", "return"}
        /\ LastSteps[Len(LastSteps)].step = last.outcome

\* C22 witness: a call that raised had passed two different warnings to
\* warn(), in the order the document lists them.
C22_Witness ==
    /\ ParseComposed /\ last.outcome = "throw"
    /\ Len(last.warned) = 2 /\ last.warned[1] # last.warned[2]
    /\ last.warned = LastDoc.warnings
    /\ LastSteps[3].step = "throw"

\* a call that returned and stored its value had logged two warnings
C22_ReturnReached ==
    /\ ParseComposed /\ last.outcome = "return"
    /\ Len(last.warned) = 2
    /\ Len(parseCache.cache) = 1

\* the step is a parse call that raises
RaisingParse ==
    /\ nCalls' = nCalls + 1
    /\ last'.op = "parse" /\ last'.outcome = "throw"

\* the step repeats the parse call before it, which raised
RepeatsRaisingParse ==
    /\ nCalls' = nCalls + 1
    /\ last.op = "parse" /\ last.outcome = "throw"
    /\ last'.op = "parse"
    /\ last'.a1 = last.a1 /\ last'.a2 = last.a2 /\ last'.a3 = last.a3

\* C23: a parse call that raises stores nothing: the entries of the parse
\* cache, their order of recency and its size are as before the call, hits is
\* unchanged and misses grows by 1 exactly when no reviver argument was
\* given; a repetition of the failing call invokes the engine again and
\* raises the same error again.
C23_RaisingCallStoresNothing ==
    [][/\ RaisingParse =>
            /\ parseCache'.cache = parseCache.cache
            /\ LRUCache_size(parseCache') = LRUCache_size(parseCache)
            /\ parseCache'.hits = parseCache.hits
            /\ parseCache'.misses = parseCache.misses
                   + (IF IsUndefined(CallReviver(last')) THEN 1 ELSE 0)
            /\ stringifyCache' = stringifyCache
            /\ last'.engine = 1
       /\ RepeatsRaisingParse =>
            /\ last'.outcome = "throw" /\ last'.ret = last.ret
            /\ last'.engine = 1]_vars

\* C23 witness: the second of two raising calls without a reviver on an empty
\* cache was a miss again, invoked the engine and left the cache empty.
C23_Witness ==
    /\ nCalls = 2
    /\ last.op = "parse" /\ last.outcome = "throw" /\ last.engine = 1
    /\ last.a1 = SrcWarnings /\ last.a2 = Undefined
    /\ last.before.parse.misses = 1 /\ parseCache.misses = 2
    /\ parseCache.hits = 0 /\ LRUCache_size(parseCache) = 0

\* a raising call on a full cache left the entry where it was, and a raising
\* call with a reviver argument counted nothing
C23_EntryKept ==
    /\ last.op = "parse" /\ last.outcome = "throw"
    /\ LRUCache_size(parseCache) = CacheCapacity
    /\ parseCache.cache = last.before.parse.cache

C23_ReviverReached ==
    /\ last.op = "parse" /\ last.outcome = "throw"
    /\ last.a2 = FnReviver
    /\ parseCache = last.before.parse

\* the step is a parse call without a reviver argument that went to the
\* engine, and the key of that call
ParsePopulates ==
    /\ nCalls' = nCalls + 1
    /\ last'.op = "parse" /\ IsUndefined(CallReviver(last'))
    /\ last'.engine = 1

ParseKey == parseCacheKey(last'.a1, CallOptions(last'), CallReviver(last'))

\* the step is a stringify call that looked into the cache and went to the
\* engine, and the key of that call
StringifyPopulates ==
    /\ nCalls' = nCalls + 1
    /\ last'.op = "stringify" /\ last'.engine = 1
    /\ stringifyCache'.hits + stringifyCache'.misses
          = stringifyCache.hits + stringifyCache.misses + 1

StringifyKey ==
    stringifyCacheKey(last'.a1, stringifyArgOptions(last'.a2, last'.a3))

\* C25: in any sequence of parse and stringify calls a key is populated at
\* most once between two absences of it: a call goes to the engine and
\* invokes set only after its own get on the key counted a miss, and then the
\* key is not in the store, so no entry that is present is overwritten.
C25_PopulatedOncePerEpoch ==
    [][/\ ParsePopulates =>
            /\ parseCache'.misses = parseCache.misses + 1
            /\ ParseKey \notin MapKeys(parseCache.cache)
       /\ StringifyPopulates =>
            /\ stringifyCache'.misses = stringifyCache.misses + 1
            /\ StringifyKey \notin MapKeys(stringifyCache.cache)]_vars

\* the part of C25 that holds: a call that goes to the engine with a key of
\* its own has counted a miss on that key in the same step
C25_PopulatesAfterOwnMiss ==
    [][/\ ParsePopulates => parseCache'.misses = parseCache.misses + 1
       /\ StringifyPopulates => stringifyCache'.misses = stringifyCache.misses + 1]_vars

\* the state the violation starts from: a returning parse call has stored
\* undefined under its key
C25_UndefinedStored ==
    /\ last.op = "parse" /\ last.outcome = "return" /\ IsUndefined(last.ret)
    /\ LRUCache_size(parseCache) = 1
    /\ IsUndefined(parseCache.cache[1].v)

-----------------------------------------------------------------------------
\* SpecStringify: stringify on values of every type and with every form of
\* its second and third argument.

O_keepUndefined == Obj(<<Field(N_keepUndefined, True)>>)
O_keepUndefinedFalse == Obj(<<Field(N_keepUndefined, False)>>)
TwoSpaces == Str(<<32, 32>>)

\* values of every type, no replacer and no options
StringifyAnyValue ==
    {<<v, Undefined, Undefined>> :
        v \in {Str(<<97>>), True, Null, Num(1), Dec(15), NaN, Infinity, NegZero,
               Undefined, [t |-> "array", v |-> <<1>>], EmptyObject, ADocument}}

\* one string with every form of replacer and options
StringifyAnyArgs ==
    {<<Str(<<97>>), a[1], a[2]>> :
        a \in {<<FnReplacer, Undefined>>, <<ArrayReplacer, Undefined>>,
               <<O_indent2, Undefined>>, <<Num(2), Undefined>>,
               <<Null, Num(2)>>, <<Null, TwoSpaces>>, <<Null, Dec(24)>>,
               <<Null, Dec(25)>>, <<Null, Num(3)>>, <<Null, Num(8)>>,
               <<Null, Num(9)>>, <<Null, Infinity>>, <<Null, Num(0)>>,
               <<Null, Num(-1)>>, <<Null, Str(<<>>)>>, <<Null, Dec(4)>>,
               <<Null, Dec(5)>>, <<Null, NaN>>}}

\* undefined, and a document, with and without a replacer
StringifyUndefined ==
    {<<Undefined, a[1], a[2]>> :
        a \in {<<FnReplacer, Undefined>>, <<O_keepUndefined, Undefined>>,
               <<O_keepUndefinedFalse, Undefined>>, <<Null, Num(2)>>,
               <<FnReplacer, O_keepUndefined>>}}
    \cup {<<ADocument, FnReplacer, Undefined>>, <<NaN, FnReplacer, Undefined>>}

StringifyCalls == StringifyAnyValue \cup StringifyAnyArgs \cup StringifyUndefined

StringifyBudget == nCalls < MaxStringifyCalls

NextStringify ==
    \/ \E c \in StringifyCalls : StringifyBudget /\ StringifyCall(c[1], c[2], c[3])
    \/ StringifyBudget /\ GetCacheStatsCall
    \/ StringifyBudget /\ ClearCachesCall

SpecStringify == Init /\ [][NextStringify]_vars

\* the stringify cache was consulted by the last call: one get was counted
StringifyCacheRead ==
    stringifyCache.hits + stringifyCache.misses
        = last.before.stringify.hits + last.before.stringify.misses + 1

\* a string, a boolean, null, or a finite number other than negative zero
CacheableValue(x) == x.t \in {"string", "boolean", "null", "number", "decimal"}

\* C13: stringify reads or writes the stringify cache exactly when no replacer
\* function or array is supplied, the value is not a document, and the value
\* is a string, a boolean, null or a finite number other than -0; for every
\* other value hits, misses and size of the cache are unchanged by the call.
C13_CachesOnlyPrimitives ==
    last.op = "stringify" =>
        IF ~SuppliesReplacer(last) /\ ~isDocument(last.a1) /\ CacheableValue(last.a1)
        THEN /\ StringifyCacheRead
             /\ MapHas(stringifyCache.cache,
                       stringifyCacheKey(last.a1, stringifyArgOptions(last.a2, last.a3)))
        ELSE /\ stringifyCache = last.before.stringify
             /\ TrackedLRUCache_stats(stringifyCache)
                    = TrackedLRUCache_stats(last.before.stringify)

\* C13 witness: with an entry in the cache, stringify of NaN went to the
\* engine and left the cache and its counters as they were.
C13_Witness ==
    /\ last.op = "stringify" /\ last.a1 = NaN /\ IsUndefined(last.a2)
    /\ last.engine = 1
    /\ Len(last.before.stringify.cache) = 1
    /\ stringifyCache = last.before.stringify

\* a number with a fraction was stored and answered from the cache
C13_HitReached ==
    /\ last.op = "stringify" /\ last.a1 = Dec(15)
    /\ stringifyCache.hits = 1 /\ last.engine = 0

\* the bare string or bare number a recorded stringify call gives as options:
\* its third argument or, without a third, its second
LegacyOf(c) ==
    IF TypeOf(c.a3) \in {"string", "number"} THEN c.a3
    ELSE IF IsUndefined(c.a3) /\ TypeOf(c.a2) \in {"string", "number"} THEN c.a2
    ELSE Undefined

IsLegacy(c) ==
    /\ c.op = "stringify"
    /\ ~IsUndefined(LegacyOf(c))
    /\ LegacyOf(c).t # "NaN"

\* the width a legacy argument asks for: the length of a string, a number
\* rounded to the nearest integer (9 standing for any width above 8)
ClaimedWidth(arg) ==
    CASE arg.t = "string" -> Len(arg.v)
      [] arg.t = "number" -> arg.v[1]
      [] arg.t = "decimal" -> (arg.v[1] + 5) \div 10
      [] arg.t = "Infinity" -> 9
      [] arg.t = "-0" -> 0

\* the options the claim gives a legacy argument: indent n for 1 <= n <= 8,
\* indent 8 above, nothing below 1
ClaimedIndent(arg) ==
    LET n == ClaimedWidth(arg) IN
    IF n < 1 THEN {}
    ELSE {Field(N_indent, Num(IF n > 8 THEN 8 ELSE n))}

\* C14: a bare string of length L is treated like the bare number L; a bare
\* number n, rounded, gives indent n for 1 <= n <= 8, indent 8 for n > 8 and
\* no indent at all (never indent 0) for n < 1: these are the options the
\* engine gets. The key is computed from them, so the second of two calls in a
\* row on the same cacheable value whose legacy arguments normalize to the
\* same indent is answered from the entry of the first.
C14_LegacyIndent ==
    [][(IsLegacy(last') /\ nCalls' = nCalls + 1) =>
         /\ last'.engine = 1 => last'.ret.opts = ClaimedIndent(LegacyOf(last'))
         /\ (/\ IsLegacy(last)
             /\ last.a1 = last'.a1 /\ CacheableValue(last.a1)
             /\ ~SuppliesReplacer(last) /\ ~SuppliesReplacer(last')
             /\ ClaimedIndent(LegacyOf(last)) = ClaimedIndent(LegacyOf(last')))
            => /\ stringifyCache'.hits = stringifyCache.hits + 1
               /\ stringifyCache'.misses = stringifyCache.misses
               /\ LRUCache_size(stringifyCache') = LRUCache_size(stringifyCache)
               /\ last'.engine = 0
               /\ last'.ret = last.ret]_vars

\* C14 witness: stringify with a string of two spaces was answered from the
\* entry of the call before it, which the engine computed with indent 2.
C14_Witness ==
    /\ last.op = "stringify" /\ last.a3 = TwoSpaces
    /\ last.engine = 0
    /\ stringifyCache.hits = 1 /\ stringifyCache.misses = 1
    /\ last.ret.opts = {Field(N_indent, Num(2))}

\* no argument of the call sets keepUndefined
NoKeepUndefined(c) ==
    /\ ~Truthy(GetField(c.a2, N_keepUndefined))
    /\ ~Truthy(GetField(c.a3, N_keepUndefined))

C15_KeepUndefinedReached ==
    /\ last.op = "stringify" /\ IsUndefined(last.a1) /\ last.a2 = O_keepUndefined
    /\ last.engine = 1 /\ last.ret.t = "text"

-----------------------------------------------------------------------------
\* Properties checked under SpecAlias.

\* C16: the parse cache and the stringify cache are independent: a parse call
\* changes neither the entries nor the size, hits or misses of the stringify
\* cache, and a stringify call changes none of those of the parse cache, also
\* when both calls compute the same key.
C16_CachesIndependent ==
    /\ last.op = "parse" =>
         /\ stringifyCache = last.before.stringify
         /\ TrackedLRUCache_stats(stringifyCache)
                = TrackedLRUCache_stats(last.before.stringify)
    /\ last.op = "stringify" =>
         /\ parseCache = last.before.parse
         /\ TrackedLRUCache_stats(parseCache) = TrackedLRUCache_stats(last.before.parse)

\* C16 witness: parse of the text "a" in quotes, then stringify of the string
\* a: both calls computed the same key, stringify missed in its own cache and
\* each cache holds its own value under that key.
C16_Witness ==
    /\ last.op = "stringify"
    /\ LRUCache_size(parseCache) = 1 /\ LRUCache_size(stringifyCache) = 1
    /\ parseCache.cache[1].k = stringifyCache.cache[1].k
    /\ parseCache.cache[1].v.t = "value" /\ stringifyCache.cache[1].v.t = "text"
    /\ stringifyCache.misses = 1 /\ stringifyCache.hits = 0
    /\ parseCache = last.before.parse

====
